---------------------------- MODULE Spec2Model ----------------------------
(***************************************************************************)
(* Model of weather-analysis/src/data_fetcher.py (UniversalWeatherFetcher): *)
(* the date-keyed flat-file cache, the three fetch operations, the parser  *)
(* and compare_cities.  Time is counted in ticks (TicksPerHour per hour);  *)
(* the clock starts shortly before midnight of 2026-11-01 so that a run    *)
(* sees fresh entries, stale entries and a change of calendar date.        *)
(***************************************************************************)
EXTENDS Integers, Sequences, FiniteSets, TLC

\* ---------------------------------------------------------------- bounds
TicksPerHour == 2
MaxTicks == 4
MaxCalls == 2
MaxCities == 3
MaxDays == 3            \* the largest `days` argument given to get_forecast

\* ------------------------------------------------------ program constants
HoursPerDay == 24
SleepDeciSeconds == 11
HTTP_OK == 200
HTTP_NOT_FOUND == 404
PointsPerDay == 8

DayTicks == HoursPerDay * TicksPerHour
StartTick == DayTicks - MaxTicks
EndTick == StartTick + MaxTicks

Cities == {"Guilin", "Beijing"}
Countries == {"CN"}
Endpoints == {"current", "forecast"}
\* A status that is neither 200 nor 404.
OtherStatuses == {500}

\* Python's None / an omitted argument; "" is falsy like None in `x or default`.
NoArg == ""
\* Optional[Dict]: None is the empty sequence, a dict d is <<d>>.
None == << >>
Some(d) == <<d>>

\* --------------------------------------------------------------- payloads
\* A JSON object is a function from its keys; temperatures are in hundredths
\* of a degree (the provider sends two decimals), the wind in tenths of m/s.
LoneSurrogate == "\\ud800"
EmptyBody == [k \in {} |-> 0]
PartialBody == [cod |-> 200]
GoodBody ==
    [name |-> "Guilin", weather_main |-> "Clear", description |-> "clear sky",
     temp |-> 2204, feels_like |-> 2150, humidity |-> 50, wind_speed |-> 30,
     country |-> "CN"]
SurrogateBody ==
    [name |-> "Guilin", weather_main |-> "Rain", description |-> LoneSurrogate,
     temp |-> 2800, feels_like |-> 3000, humidity |-> 90, wind_speed |-> 120,
     country |-> "CN"]
Bodies == {EmptyBody, PartialBody, GoodBody, SurrogateBody}

\* bool(d) of a dict: an empty dict is falsy.
Truthy(d) == DOMAIN d # {}
\* `if x:` on an Optional[Dict].
TruthyOpt(o) == o # None /\ Truthy(o[1])

\* What the remote API answers: a network error, or a status with a body
\* (<<>> when the body is not JSON, so that response.json() raises).
NetworkError == [err |-> TRUE, status |-> 0, body |-> None]
Responses ==
    {NetworkError}
    \cup {[err |-> FALSE, status |-> HTTP_OK, body |-> b] :
            b \in {None} \cup {Some(d) : d \in Bodies}}
    \cup {[err |-> FALSE, status |-> s, body |-> None] :
            s \in {HTTP_NOT_FOUND} \cup OtherStatuses}

\* ------------------------------------------------------------------ config
\* The fields of config.config the fetcher and the city manager read or set.
\* The defaults of WeatherConfig.__init__ (coordinates in whole degrees).
DefaultConfig ==
    [CITY |-> "Guilin", COUNTRY |-> "CN", LAT |-> 25, LON |-> 110,
     API_KEY |-> "key", USE_CACHE |-> TRUE, CACHE_HOURS |-> 1, FORECAST_DAYS |-> 5,
     TIMEZONE |-> "Asia/Shanghai", LANGUAGE |-> "zh_cn",
     CITY_DISPLAY_NAME |-> "guilin"]

VARIABLES
    config,     \* the WeatherConfig singleton
    now,        \* the wall clock, in ticks since 2026-11-01 00:00
    cache,      \* cache_dir: file name -> [text, mtime], for the files that exist
    last,       \* the outcome of the most recent fetch call
    fetched,    \* per (city, endpoint): the last body a remote 200 fetch returned, and when
    calls,      \* number of fetch calls made so far
    cmp,        \* the compare_cities call in progress or last finished
    calc,       \* the most recent direct call of a helper: its arguments and result
    stock,      \* the stock CSV files, and the most recent load call
    book,       \* the most recent get_book_info call
    presets     \* the city preset file, the config file and the CityManager built on them

vars == <<config, now, cache, last, fetched, calls, cmp, calc, stock, book, presets>>

\* ------------------------------------------------------------ _get_cache_key
\* The date of a clock that runs one tick ahead of the local one.
DateStr_ClockAhead(t) == IF (t + 1) \div DayTicks = 0 THEN "20261101" ELSE "20261102"

\* A date string that does not change at midnight.
DateStr_Undated(t) == "20261101"

\* strftime('%Y%m%d') of the clock.
DateStr(t) == IF t \div DayTicks = 0 THEN "20261101" ELSE "20261102"

\* hashlib.md5(key_string).hexdigest()[:8], tabulated for the key strings of
\* the model's cities, endpoints and dates.
Md5Prefix(key_string) ==
    CASE key_string = "Guilin_current_20261101" -> "4af72962"
      [] key_string = "Guilin_forecast_forecast_20261101" -> "049a67df"
      [] key_string = "Guilin_current_20261102" -> "05f009ea"
      [] key_string = "Guilin_forecast_forecast_20261102" -> "024a5dae"
      [] key_string = "Beijing_current_20261101" -> "f00ef6a4"
      [] key_string = "Beijing_forecast_forecast_20261101" -> "99456d1d"
      [] key_string = "Beijing_current_20261102" -> "ad99160c"
      [] key_string = "Beijing_forecast_forecast_20261102" -> "52879a58"

_get_cache_key(city, endpoint, t) ==
    Md5Prefix(city \o "_" \o endpoint \o "_" \o DateStr(t))

\* f"{cache_key}_{endpoint}.json"
CacheFile(cache_key, endpoint) == cache_key \o "_" \o endpoint \o ".json"

\* ------------------------------------------------------------------- json
\* json.dump writes the text piece by piece; a string that utf-8 cannot
\* encode (a lone surrogate) raises in the middle and leaves a prefix.
Encodable(d) == "description" \in DOMAIN d => d.description # LoneSurrogate
JsonDump(d) == IF Encodable(d) THEN <<"{", d, "}">> ELSE <<"{">>
JsonLoadRaises(text) == Len(text) # 3
JsonLoad(text) == text[2]

\* ------------------------------------------------------- _load_from_cache
CacheWindow(cfg) == cfg.CACHE_HOURS * TicksPerHour

\* Mutants of IsFresh: a window one tick short; any existing file is fresh.
IsFresh_OffByOne(file_age, cfg) == file_age < CacheWindow(cfg) - 1
IsFresh_Always(file_age, cfg) == TRUE
\* No file counted as fresh.
IsFresh_Never(file_age, cfg) == FALSE
\* A file whose age equals the window still counted as fresh.
IsFresh_Inclusive(file_age, cfg) == file_age <= CacheWindow(cfg)
IsFresh(file_age, cfg) == file_age < CacheWindow(cfg)

_load_from_cache(cache_key, endpoint, cfg, cch, t) ==
    LET cache_file == CacheFile(cache_key, endpoint)
    IN  IF ~cfg.USE_CACHE
        THEN [ret |-> None, raised |-> FALSE]
        ELSE IF cache_file \in DOMAIN cch /\ IsFresh(t - cch[cache_file].mtime, cfg)
        THEN IF JsonLoadRaises(cch[cache_file].text)
             THEN [ret |-> None, raised |-> TRUE]
             ELSE [ret |-> Some(JsonLoad(cch[cache_file].text)), raised |-> FALSE]
        ELSE [ret |-> None, raised |-> FALSE]

\* --------------------------------------------------------- _save_to_cache
\* open(cache_file, 'w') creates or truncates the file, json.dump fills it.
FileWrite(cch, cache_file, text, t) ==
    [f \in DOMAIN cch \cup {cache_file} |->
        IF f = cache_file THEN [text |-> text, mtime |-> t] ELSE cch[f]]

_save_to_cache(cache_key, endpoint, data, cch, t) ==
    [cache |-> FileWrite(cch, CacheFile(cache_key, endpoint), JsonDump(data), t),
     raised |-> ~Encodable(data)]

\* -------------------------------------------------------------- outcomes
\* What one fetch call did: its return value, whether an exception left it,
\* the message it printed, the steps it took and the requests it sent.
Outcome(op, city, endpoint, file, ret, raised, signal, events, reqs, hit, cch) ==
    [op |-> op, city |-> city, endpoint |-> endpoint, file |-> file, ret |-> ret,
     raised |-> raised, signal |-> signal, events |-> events, reqs |-> reqs,
     hit |-> hit, cache |-> cch]

\* ------------------------------------------------------ get_current_weather
\* Mutants of SignalCurrent: the 404 branch lost; every failure reported as 404.
SignalCurrent_NoNotFound(status) == "RequestFailed"
SignalCurrent_AllNotFound(status) == "NotFound"
SignalCurrent(status) ==
    IF status = HTTP_NOT_FOUND THEN "NotFound" ELSE "RequestFailed"

get_current_weather(city, country, resp, cfg, cch, t) ==
    LET target_city == IF city # NoArg THEN city ELSE cfg.CITY
        target_country == IF country # NoArg THEN country ELSE cfg.COUNTRY
        cache_key == _get_cache_key(target_city, "current", t)
        cached_data == _load_from_cache(cache_key, "current", cfg, cch, t)
        params == [url |-> "/weather", q |-> target_city \o "," \o target_country,
                   units |-> "metric", lang |-> cfg.LANGUAGE]
        saved == _save_to_cache(cache_key, "current", resp.body[1], cch, t)
        Out(ret, raised, signal, events, reqs, hit, c) ==
            Outcome("get_current_weather", target_city, "current",
                    CacheFile(cache_key, "current"), ret, raised, signal, events, reqs, hit, c)
    IN  IF cached_data.raised
        THEN Out(None, TRUE, "none", <<"lookup">>, << >>, FALSE, cch)
        ELSE IF TruthyOpt(cached_data.ret)
        THEN Out(cached_data.ret, FALSE, "none", <<"lookup">>, << >>, TRUE, cch)
        ELSE IF resp.err \/ (resp.status = HTTP_OK /\ resp.body = None)
        THEN Out(None, FALSE, "NetworkError", <<"lookup", "request">>,
                 <<params>>, FALSE, cch)
        ELSE IF resp.status = HTTP_OK
        THEN IF saved.raised
             THEN Out(None, FALSE, "NetworkError", <<"lookup", "request", "save">>,
                      <<params>>, FALSE, saved.cache)
             ELSE Out(resp.body, FALSE, "none", <<"lookup", "request", "save">>,
                      <<params>>, FALSE, saved.cache)
        ELSE Out(None, FALSE, SignalCurrent(resp.status), <<"lookup", "request">>,
                 <<params>>, FALSE, cch)


\* ------------------------------------------------------------ get_forecast
\* The count sent as the number of days instead of the number of 3-hour points.
ForecastCount_Unscaled(target_days) == target_days

ForecastCount(target_days) == target_days * PointsPerDay

get_forecast(city, country, days, resp, cfg, cch, t) ==
    LET target_city == IF city # NoArg THEN city ELSE cfg.CITY
        target_country == IF country # NoArg THEN country ELSE cfg.COUNTRY
        target_days == IF days # 0 THEN days ELSE cfg.FORECAST_DAYS
        cache_key == _get_cache_key(target_city \o "_forecast", "forecast", t)
        cached_data == _load_from_cache(cache_key, "forecast", cfg, cch, t)
        params == [url |-> "/forecast", q |-> target_city \o "," \o target_country,
                   units |-> "metric", lang |-> cfg.LANGUAGE,
                   cnt |-> ForecastCount(target_days)]
        saved == _save_to_cache(cache_key, "forecast", resp.body[1], cch, t)
        Out(ret, raised, signal, events, reqs, hit, c) ==
            Outcome("get_forecast", target_city, "forecast",
                    CacheFile(cache_key, "forecast"), ret, raised, signal, events, reqs, hit, c)
    IN  IF cached_data.raised
        THEN Out(None, TRUE, "none", <<"lookup">>, << >>, FALSE, cch)
        ELSE IF TruthyOpt(cached_data.ret)
        THEN Out(cached_data.ret, FALSE, "none", <<"lookup">>, << >>, TRUE, cch)
        ELSE IF resp.err \/ (resp.status = HTTP_OK /\ resp.body = None)
        THEN Out(None, FALSE, "NetworkError", <<"lookup", "request">>,
                 <<params>>, FALSE, cch)
        ELSE IF resp.status = HTTP_OK
        THEN IF saved.raised
             THEN Out(None, FALSE, "NetworkError", <<"lookup", "request", "save">>,
                      <<params>>, FALSE, saved.cache)
             ELSE Out(resp.body, FALSE, "none", <<"lookup", "request", "save">>,
                      <<params>>, FALSE, saved.cache)
        ELSE Out(None, FALSE, "RequestFailed", <<"lookup", "request">>,
                 <<params>>, FALSE, cch)

\* ------------------------------------------------ get_weather_by_coordinates
\* Mutant of CoordinateParams: the query falls back to the configured city name.
CoordinateParams_ByCity(target_lat, target_lon, cfg) ==
    [url |-> "/weather", q |-> cfg.CITY \o "," \o cfg.COUNTRY,
     units |-> "metric", lang |-> cfg.LANGUAGE]
CoordinateParams(target_lat, target_lon, cfg) ==
    [url |-> "/weather", lat |-> target_lat, lon |-> target_lon,
     units |-> "metric", lang |-> cfg.LANGUAGE]

get_weather_by_coordinates(lat, lon, resp, cfg, cch, t) ==
    LET target_lat == IF lat # 0 THEN lat ELSE cfg.LAT
        target_lon == IF lon # 0 THEN lon ELSE cfg.LON
        params == CoordinateParams(target_lat, target_lon, cfg)
        Out(ret, raised, signal, events, reqs, hit, c) ==
            Outcome("get_weather_by_coordinates", NoArg, "current",
                    NoArg, ret, raised, signal, events, reqs, hit, c)
    IN  IF resp.err \/ (resp.status = HTTP_OK /\ resp.body = None)
        THEN Out(None, FALSE, "NetworkError", <<"request">>, <<params>>, FALSE, cch)
        ELSE IF resp.status = HTTP_OK
        THEN Out(resp.body, FALSE, "none", <<"request">>, <<params>>, FALSE, cch)
        ELSE Out(None, FALSE, "RequestFailed", <<"request">>, <<params>>, FALSE, cch)

\* -------------------------------------------------- calculate_comfort_index
\* temp in tenths of a degree, humidity in percent, wind_speed in tenths of m/s.
\* Labels are the pinyin of the source's strings.

\* Each threshold counted into the band below it.
TempScore_InclusiveBounds(temp) ==
    IF temp <= 0 THEN "yanhan"
    ELSE IF temp <= 100 THEN "hanleng"
    ELSE IF temp <= 180 THEN "liangshuang"
    ELSE IF temp <= 260 THEN "shushi"
    ELSE IF temp <= 320 THEN "wennuan"
    ELSE "yanre"

TempScore(temp) ==
    IF temp < 0 THEN "yanhan"
    ELSE IF temp < 100 THEN "hanleng"
    ELSE IF temp < 180 THEN "liangshuang"
    ELSE IF temp < 260 THEN "shushi"
    ELSE IF temp < 320 THEN "wennuan"
    ELSE "yanre"

HumidityAdj(humidity) ==
    IF humidity > 85 THEN "chaoshi"
    ELSE IF humidity < 30 THEN "ganzao"
    ELSE "shizhong"

WindAdj(wind_speed) ==
    IF wind_speed > 100 THEN "dafeng"
    ELSE IF wind_speed > 50 THEN "youfeng"
    ELSE "weifeng"

\* The wind label made part of the composed rating.
calculate_comfort_index_Windy(temp, humidity, wind_speed) ==
    LET temp_score == TempScore(temp)
        humidity_adj == HumidityAdj(humidity)
    IN  IF temp_score = "shushi" /\ humidity_adj = "shizhong"
        THEN "feichangshushi"
        ELSE IF temp_score \in {"wennuan", "liangshuang"} /\ humidity_adj # "chaoshi"
        THEN "jiaoweishushi"
        ELSE temp_score \o humidity_adj \o WindAdj(wind_speed)

calculate_comfort_index(temp, humidity, wind_speed) ==
    LET temp_score == TempScore(temp)
        humidity_adj == HumidityAdj(humidity)
    IN  IF temp_score = "shushi" /\ humidity_adj = "shizhong"
        THEN "feichangshushi"
        ELSE IF temp_score \in {"wennuan", "liangshuang"} /\ humidity_adj # "chaoshi"
        THEN "jiaoweishushi"
        ELSE temp_score \o humidity_adj

\* ------------------------------------------------------- parse_weather_data
\* config.WEATHER_MAP (config.py), the labels in pinyin.
WEATHER_MAP ==
    [Clear |-> "qinglang", Clouds |-> "duoyun", Rain |-> "jiangyu",
     Snow |-> "jiangxue", Thunderstorm |-> "leibao", Drizzle |-> "maomaoyu",
     Mist |-> "bowu", Fog |-> "wu", Haze |-> "mai", Dust |-> "shachen",
     Smoke |-> "yanwu", Ash |-> "huoshanhui", Squall |-> "biao",
     Tornado |-> "longjuanfeng"]

\* dict.get(key) without the default.
WeatherMapGet_NoDefault(weather_en) ==
    IF weather_en \in DOMAIN WEATHER_MAP THEN WEATHER_MAP[weather_en] ELSE NoArg

\* dict.get(key, default)
WeatherMapGet(weather_en) ==
    IF weather_en \in DOMAIN WEATHER_MAP THEN WEATHER_MAP[weather_en] ELSE weather_en

\* round(x, 1) of a value given in hundredths, as tenths (ties to even).
Round1(h) ==
    LET q == h \div 10
        r == h % 10
    IN  IF r < 5 THEN q
        ELSE IF r > 5 THEN q + 1
        ELSE IF q % 2 = 0 THEN q ELSE q + 1

\* The keys parse_weather_data subscripts without a default.
RequiredKeys ==
    {"weather_main", "description", "country", "temp", "feels_like",
     "humidity", "wind_speed"}

parse_weather_data(data, city_display_name) ==
    IF ~TruthyOpt(data)
    THEN [ret |-> None, raised |-> FALSE]
    ELSE IF ~(RequiredKeys \subseteq DOMAIN data[1])
    THEN [ret |-> None, raised |-> TRUE]
    ELSE LET d == data[1]
             display_name ==
                 IF city_display_name # NoArg THEN city_display_name
                 ELSE IF "name" \in DOMAIN d THEN d.name ELSE "weizhichengshi"
             temp == Round1(d.temp)
         IN  [ret |-> Some([chengshi |-> display_name,
                            guojia |-> d.country,
                            tianqi |-> WeatherMapGet(d.weather_main),
                            miaoshu |-> d.description,
                            wendu |-> temp,
                            tigan |-> Round1(d.feels_like),
                            shidu |-> d.humidity,
                            fengsu |-> d.wind_speed,
                            shushidu |-> calculate_comfort_index(
                                            temp, d.humidity, d.wind_speed)]),
              raised |-> FALSE]

\* --------------------------------------------- data_loader: load_stock_data
\* A file path is kept as its os.path.dirname and its base name; '' is the
\* dirname of a bare file name.  A data frame is known by where it came from.
Tickers == {"AAPL", "MSFT"}
DataDirs == {"data", NoArg}
EmptyCsv == ""
NoFrame == "none"

\* os.path.join(data_dir, f"{ticker}_stock_data.csv")
StockPath(data_dir, ticker) == [dir |-> data_dir, base |-> ticker \o "_stock_data.csv"]
StockPaths == {StockPath(d, t) : d \in DataDirs, t \in Tickers}

\* download_stock_data: yf.download returns a frame or raises.
Downloads == {[raised |-> TRUE, data |-> NoFrame], [raised |-> FALSE, data |-> "downloaded"]}

\* os.makedirs(os.path.dirname(file_path), exist_ok=True): makedirs('') raises
\* FileNotFoundError.
MakedirsRaises(dir) == dir = NoArg

\* pd.read_csv, both attempts: an empty file raises EmptyDataError.
ReadCsv(text) ==
    IF text = EmptyCsv THEN [ret |-> None, raised |-> TRUE]
    ELSE [ret |-> Some(text), raised |-> FALSE]

\* data.to_csv(file_path)
ToCsv(files, file_path, data) ==
    [f \in DOMAIN files \cup {file_path} |-> IF f = file_path THEN data ELSE files[f]]

\* What one load_stock_data call did; `downloads` counts the calls of
\* download_stock_data.
load_stock_data(file_path, force_download, dl, files) ==
    LET exists == file_path \in DOMAIN files
        local == ReadCsv(files[file_path])
        Res(ret, raised, downloads, fs) ==
            [ret |-> ret, raised |-> raised, downloads |-> downloads, files |-> fs]
    IN  IF ~exists \/ force_download
        THEN IF ~dl.raised /\ ~MakedirsRaises(file_path.dir)
             THEN Res(Some(dl.data), FALSE, 1, ToCsv(files, file_path, dl.data))
             ELSE IF exists
             THEN Res(local.ret, local.raised, 1, files)
             ELSE Res(None, TRUE, 1, files)
        ELSE Res(local.ret, local.raised, 0, files)

\* --------------------------------------- data_loader: load_multiple_stocks
\* A failed ticker kept in the dict with no frame.
AfterLoad_KeepFailed(stock_data, ticker, r) ==
    [t \in DOMAIN stock_data \cup {ticker} |->
        IF t = ticker THEN (IF r.raised THEN NoFrame ELSE r.ret[1]) ELSE stock_data[t]]

\* The try/except around one ticker's load: stock_data[ticker] = data, or
\* the exception printed and dropped.
AfterLoad(stock_data, ticker, r) ==
    IF r.raised THEN stock_data
    ELSE [t \in DOMAIN stock_data \cup {ticker} |->
             IF t = ticker THEN r.ret[1] ELSE stock_data[t]]

\* The loop from ticker i on; dls[i] is what the download of the i-th
\* ticker would give, `loads` the outcome of each load so far.
RECURSIVE LoadEach(_, _, _, _, _, _, _, _)
LoadEach(tickers, i, data_dir, force_download, dls, files, stock_data, loads) ==
    IF i > Len(tickers)
    THEN [ret |-> stock_data, raised |-> FALSE, files |-> files, loads |-> loads]
    ELSE LET ticker == tickers[i]
             r == load_stock_data(StockPath(data_dir, ticker), force_download,
                                  dls[i], files)
         IN  LoadEach(tickers, i + 1, data_dir, force_download, dls, r.files,
                      AfterLoad(stock_data, ticker, r),
                      Append(loads, [ticker |-> ticker, raised |-> r.raised,
                                     downloads |-> r.downloads]))

load_multiple_stocks(tickers, data_dir, force_download, dls, files) ==
    LoadEach(tickers, 1, data_dir, force_download, dls, files,
             [t \in {} |-> NoFrame], << >>)

NoStock == [op |-> "none", files |-> [f \in {} |-> EmptyCsv]]

\* ------------------------------------------------- book2mk: get_book_info
DOUBAN_SEARCH_URL == "https://search.douban.com/book/subject_search"
Unknown == "weizhi"
BookNames == {"Dune", "Emma"}

\* 'subject' in url, for the urls the search result items carry.
ContainsSubject(url) ==
    url \in {"https://book.douban.com/subject/1/", "https://book.douban.com/subject/2/"}

\* The JSON values window.__DATA__ may hold.  An item is an object with or
\* without a url, or not an object (a number); the data is an object with or
\* without 'items', an array, or a number.
ItemLists ==
    {<< >>,
     <<[type |-> "dict", url |-> None]>>,
     <<[type |-> "number", url |-> None],
       [type |-> "dict", url |-> Some("https://book.douban.com/subject/2/")]>>,
     <<[type |-> "dict", url |-> Some("https://www.douban.com/doulist/3/")]>>,
     <<[type |-> "dict", url |-> Some("https://book.douban.com/subject/1/")]>>,
     <<[type |-> "dict", url |-> Some("https://www.douban.com/doulist/3/")],
       [type |-> "dict", url |-> Some("https://book.douban.com/subject/2/")]>>,
     <<[type |-> "dict", url |-> Some("https://book.douban.com/subject/2/")],
       [type |-> "dict", url |-> Some("https://book.douban.com/subject/1/")]>>,
     <<[type |-> "dict", url |-> Some("https://book.douban.com/subject/1/")],
       [type |-> "number", url |-> None]>>}
JsonData ==
    {[type |-> "number", items |-> None], [type |-> "list", items |-> None],
     [type |-> "dict", items |-> None]}
    \cup {[type |-> "dict", items |-> Some(l)] : l \in ItemLists}

\* The search page: without the window.__DATA__ marker, with text after it
\* that json.loads rejects, or with a JSON value after it.
NoSearchPage ==
    [marker |-> FALSE, valid |-> FALSE, data |-> [type |-> "number", items |-> None]]
SearchPages ==
    {NoSearchPage,
     [marker |-> TRUE, valid |-> FALSE, data |-> [type |-> "number", items |-> None]]}
    \cup {[marker |-> TRUE, valid |-> TRUE, data |-> d] : d \in JsonData}

\* The detail page, by what etree.HTML and the XPath queries find in it:
\* etree.HTML gives a tree, gives None or raises; the title span, the h1 text,
\* the author links, and the year, publisher and ISBN that the searches of
\* the info block come up with (None: nothing found).
NoPage ==
    [tree |-> "none", title_span |-> None, h1 |-> None, authors |-> << >>,
     year |-> None, publisher |-> None, isbn |-> None]
DetailPages ==
    {NoPage, [NoPage EXCEPT !.tree = "raises"]}
    \cup {[tree |-> "tree", title_span |-> ts, h1 |-> h, authors |-> a,
           year |-> y, publisher |-> pb, isbn |-> i] :
            ts \in {None, Some("Dune (1965)")}, h \in {None, Some("Dune")},
            a \in {<< >>, <<"Frank Herbert">>, <<"A", "B">>},
            y \in {None, Some("1965")}, pb \in {None, Some("Ace")},
            i \in {None, Some("9780441172719")}}

\* What requests.get gives: a connection error or timeout, or a status; the
\* page matters for status 200 only.
SearchResponses ==
    {[err |-> TRUE, status |-> 0, page |-> NoSearchPage],
     [err |-> FALSE, status |-> HTTP_NOT_FOUND, page |-> NoSearchPage]}
    \cup {[err |-> FALSE, status |-> HTTP_OK, page |-> pg] : pg \in SearchPages}
DetailResponses ==
    {[err |-> TRUE, status |-> 0, page |-> NoPage],
     [err |-> FALSE, status |-> HTTP_NOT_FOUND, page |-> NoPage]}
    \cup {[err |-> FALSE, status |-> HTTP_OK, page |-> pg] : pg \in DetailPages}

\* response.raise_for_status()
RaiseForStatus(status) == status >= 400

\* The loop of lines 76-80: the url of the first item that has one holding
\* 'subject'; TypeError when an item met before it is not an object.
RECURSIVE FirstBookLink(_, _)
FirstBookLink(items, i) ==
    IF i > Len(items) THEN [link |-> None, exc |-> "none"]
    ELSE IF items[i].type # "dict" THEN [link |-> None, exc |-> "TypeError"]
    ELSE IF items[i].url # None /\ ContainsSubject(items[i].url[1])
    THEN [link |-> items[i].url, exc |-> "none"]
    ELSE FirstBookLink(items, i + 1)

\* The inner try block (lines 47-91) on the search page: the link found, or
\* None returned; every exception raised in it is caught there.
FindLink(page) ==
    IF ~page.marker THEN None
    ELSE IF ~page.valid THEN None                       \* json.JSONDecodeError
    ELSE IF page.data.type = "number" THEN None         \* TypeError
    ELSE IF page.data.type = "list" THEN None           \* AttributeError
    ELSE IF page.data.items = None THEN None
    ELSE FirstBookLink(page.data.items[1], 1).link

\* ", ".join(...) of up to two authors
JoinAuthors(authors) ==
    IF Len(authors) = 1 THEN authors[1] ELSE authors[1] \o ", " \o authors[2]

\* The five fields (lines 103-215); with no tree every query raises
\* AttributeError and the bare excepts give the fallbacks.
TitleField(page, book_name) ==
    IF page.tree # "tree" THEN book_name
    ELSE IF page.title_span # None THEN page.title_span[1]
    ELSE IF page.h1 # None THEN page.h1[1]
    ELSE book_name
AuthorField(page) ==
    IF page.tree # "tree" THEN Unknown
    ELSE IF page.authors = << >> THEN Unknown ELSE JoinAuthors(page.authors)
FoundOrUnknown(page, found) ==
    IF page.tree # "tree" THEN Unknown
    ELSE IF found = None THEN Unknown ELSE found[1]
BookInfo(page, book_name) ==
    [title |-> TitleField(page, book_name),
     author |-> AuthorField(page),
     publish_year |-> FoundOrUnknown(page, page.year),
     publisher |-> FoundOrUnknown(page, page.publisher),
     isbn |-> FoundOrUnknown(page, page.isbn)]

\* Only request errors caught by the outer handlers.
OuterCatches_RequestOnly(exc) == exc \in {"RequestException", "HTTPError"}

\* The outer handlers (lines 219-227): IndexError, RequestException and
\* Exception, which is every exception the body raises.
OuterCatches(exc) ==
    exc \in {"IndexError", "RequestException", "HTTPError", "ParserError"}

\* The call leaves with `ret`, or with exception `exc` when no handler
\* caught it; `reqs` are the urls requested.
BookOutcome(ret, exc, reqs) ==
    IF exc # "none" /\ OuterCatches(exc)
    THEN [ret |-> None, raised |-> FALSE, reqs |-> reqs]
    ELSE [ret |-> ret, raised |-> exc # "none", reqs |-> reqs]

get_book_info(book_name, search, detail) ==
    LET first_book_link == FindLink(search.page)
        one == <<DOUBAN_SEARCH_URL>>
        two == <<DOUBAN_SEARCH_URL, first_book_link[1]>>
    IN  IF search.err THEN BookOutcome(None, "RequestException", one)
        ELSE IF RaiseForStatus(search.status) THEN BookOutcome(None, "HTTPError", one)
        ELSE IF first_book_link = None THEN BookOutcome(None, "none", one)
        ELSE IF detail.err THEN BookOutcome(None, "RequestException", two)
        ELSE IF RaiseForStatus(detail.status) THEN BookOutcome(None, "HTTPError", two)
        ELSE IF detail.page.tree = "raises" THEN BookOutcome(None, "ParserError", two)
        ELSE BookOutcome(Some(BookInfo(detail.page, book_name)), "none", two)

NoBook == [op |-> "none"]

\* ------------------------------------------- city_manager: _load_presets
\* Coordinates in whole degrees, display names in pinyin.
CityInfo(name, lat, lon, display_name) ==
    [name |-> name, country |-> "CN", lat |-> lat, lon |-> lon,
     display_name |-> display_name]
default_presets ==
    [cities |->
        [beijing |-> CityInfo("Beijing", 39, 116, "beijing"),
         shanghai |-> CityInfo("Shanghai", 31, 121, "shanghai"),
         guangzhou |-> CityInfo("Guangzhou", 23, 113, "guangzhou"),
         shenzhen |-> CityInfo("Shenzhen", 22, 114, "shenzhen"),
         chengdu |-> CityInfo("Chengdu", 30, 104, "chengdu"),
         guilin |-> CityInfo("Guilin", 25, 110, "guilin")]]

\* {'cities': {}}
EmptyPresets == [cities |-> EmptyBody]

\* What a preset file may hold at start: presets written by hand, the
\* defaults written by an earlier run, JSON without 'cities', or text that
\* json.load rejects.
CustomPresets ==
    [cities |-> [tokyo |-> [name |-> "Tokyo", country |-> "JP", lat |-> 35,
                            lon |-> 139, display_name |-> "dongjing"]]]
PresetTexts ==
    {JsonDump(d) : d \in {default_presets, CustomPresets, [version |-> 1]}}
    \cup {<<"{">>}
PresetFiles == {"cities_preset.json", "my_cities.json"}
PresetFileSystems == UNION {[D -> PresetTexts] : D \in SUBSET PresetFiles}

\* The defaults written over whatever the file holds.
_load_presets_NoExistsCheck(preset_file, files, can_write) ==
    IF ~can_write
    THEN [ret |-> EmptyPresets, raised |-> FALSE, files |-> files]
    ELSE [ret |-> default_presets, raised |-> FALSE,
          files |-> [f \in DOMAIN files \cup {preset_file} |->
                        IF f = preset_file THEN JsonDump(default_presets)
                        ELSE files[f]]]

\* can_write: whether open(preset_file, 'w') succeeds.  Every exception of
\* the body is caught by the handler of lines 83-85.
_load_presets(preset_file, files, can_write) ==
    IF preset_file \in DOMAIN files
    THEN IF JsonLoadRaises(files[preset_file])
         THEN [ret |-> EmptyPresets, raised |-> FALSE, files |-> files]
         ELSE [ret |-> JsonLoad(files[preset_file]), raised |-> FALSE, files |-> files]
    ELSE IF ~can_write
    THEN [ret |-> EmptyPresets, raised |-> FALSE, files |-> files]
    ELSE [ret |-> default_presets, raised |-> FALSE,
          files |-> [f \in DOMAIN files \cup {preset_file} |->
                        IF f = preset_file THEN JsonDump(default_presets)
                        ELSE files[f]]]

\* config/config.py as shipped, before any _save_config.
OriginalConfigFile == [source |-> "WeatherConfig"]

NoPresets ==
    [op |-> "none", files |-> [f \in {} |-> << >>], manager |-> None,
     config_file |-> OriginalConfigFile]

\* ------------------------------------------------------------------ state
\* The (city, country) arguments of a call: both omitted (the configured
\* city), or both given.
CityCountryArgs == {<<NoArg, NoArg>>, <<"Beijing", "CN">>}
DaysArgs == {0, 1}
CoordArgs == {<<0, 0>>, <<31, 121>>}
CachedOps == {"get_current_weather", "get_forecast"}

NoResponse == [err |-> FALSE, status |-> 0, body |-> None]
NoCall ==
    [op |-> "none", city |-> NoArg, endpoint |-> "current", ret |-> None,
     raised |-> FALSE, signal |-> "none", events |-> << >>, reqs |-> << >>,
     hit |-> FALSE, at |-> 0, prior |-> << >>, file |-> NoArg, file_age |-> -1,
     touched |-> {}, resp |-> NoResponse]
NoCalc == [op |-> "none"]
IdleCompare ==
    [pc |-> "idle", cities |-> << >>, i |-> 1, rows |-> << >>, got |-> << >>,
     iters |-> << >>, clock |-> 0]

Init ==
    /\ config = DefaultConfig
    /\ now = StartTick
    /\ cache = [f \in {} |-> 0]
    /\ last = NoCall
    /\ fetched = [k \in Cities \X Endpoints |-> << >>]
    /\ calls = 0
    /\ cmp = IdleCompare
    /\ calc = NoCalc
    /\ stock = NoStock
    /\ book = NoBook
    /\ presets = NoPresets

\* The files of cache directory `after` that `before` does not hold as they are.
Touched(before, after) ==
    {f \in DOMAIN after : f \notin DOMAIN before \/ after[f] # before[f]}
    \cup (DOMAIN before \ DOMAIN after)

\* One fetch call returns (or raises) with outcome `out`, having been
\* answered `resp` if it sent a request.  `last` also keeps what the call
\* found: the age of the cache file it addressed (-1 when there was none)
\* and the last body a remote fetch returned for its city and endpoint, with
\* the time of that fetch and the cache file it addressed.
DoCall(out, resp) ==
    /\ cache' = out.cache
    /\ last' = [op |-> out.op, city |-> out.city, endpoint |-> out.endpoint,
                ret |-> out.ret, raised |-> out.raised, signal |-> out.signal,
                events |-> out.events, reqs |-> out.reqs, hit |-> out.hit,
                at |-> now,
                prior |-> IF out.op \in CachedOps
                          THEN fetched[<<out.city, out.endpoint>>] ELSE << >>,
                file |-> out.file,
                file_age |-> IF out.file \in DOMAIN cache
                             THEN now - cache[out.file].mtime ELSE -1,
                touched |-> Touched(cache, out.cache),
                resp |-> IF out.reqs # << >> THEN resp ELSE NoResponse]
    /\ fetched' = IF out.op \in CachedOps /\ out.ret # None /\ ~out.hit
                  THEN [fetched EXCEPT ![<<out.city, out.endpoint>>] =
                            <<[body |-> out.ret[1], at |-> now, file |-> out.file]>>]
                  ELSE fetched

Tick ==
    /\ now < EndTick
    /\ now' = now + 1
    /\ UNCHANGED <<config, cache, last, fetched, calls, cmp, calc, stock, book, presets>>

GetCurrentWeather ==
    /\ cmp.pc # "loop"
    /\ calls < MaxCalls
    /\ \E cc \in CityCountryArgs, resp \in Responses :
          DoCall(get_current_weather(cc[1], cc[2], resp, config, cache, now), resp)
    /\ calls' = calls + 1
    /\ UNCHANGED <<config, now, cmp, calc, stock, book, presets>>

GetForecast ==
    /\ cmp.pc # "loop"
    /\ calls < MaxCalls
    /\ \E cc \in CityCountryArgs, days \in DaysArgs, resp \in Responses :
          DoCall(get_forecast(cc[1], cc[2], days, resp, config, cache, now), resp)
    /\ calls' = calls + 1
    /\ UNCHANGED <<config, now, cmp, calc, stock, book, presets>>

GetWeatherByCoordinates ==
    /\ cmp.pc # "loop"
    /\ calls < MaxCalls
    /\ \E ll \in CoordArgs, resp \in Responses :
          DoCall(get_weather_by_coordinates(ll[1], ll[2], resp, config, cache, now),
                 resp)
    /\ calls' = calls + 1
    /\ UNCHANGED <<config, now, cmp, calc, stock, book, presets>>

\* ---------------------------------------------------------- compare_cities
\* dict.get(key, default)
DictGet(d, key, default) == IF key \in DOMAIN d THEN d[key] ELSE default

CityInfos == {[city |-> c] : c \in Cities}
RECURSIVE SeqsUpTo(_, _)
SeqsUpTo(S, n) ==
    IF n = 0 THEN {<< >>}
    ELSE LET shorter == SeqsUpTo(S, n - 1)
         IN  shorter \cup {Append(q, x) : q \in shorter, x \in S}

\* The reduced field set of one comparison row.
ComparisonRow(parsed) ==
    [chengshi |-> parsed.chengshi, wendu |-> parsed.wendu, tigan |-> parsed.tigan,
     tianqi |-> parsed.tianqi, shidu |-> parsed.shidu, fengsu |-> parsed.fengsu,
     shushidu |-> parsed.shushidu]

\* time.sleep(1.1) at the end of an iteration, in tenths of a second.
\* Mutant of SleepAfter: the sleep moved inside `if data:`.
SleepAfter_OnlyOnData(data) == IF TruthyOpt(data) THEN SleepDeciSeconds ELSE 0
SleepAfter(data) == SleepDeciSeconds

CompareStart ==
    /\ cmp.pc # "loop"
    /\ \E cities \in SeqsUpTo(CityInfos, MaxCities) :
          cmp' = [IdleCompare EXCEPT !.pc = "loop", !.cities = cities]
    /\ UNCHANGED <<config, now, cache, last, fetched, calls, calc, stock, book, presets>>

\* One iteration of the for loop: fetch, parse, append, sleep.
CompareIter ==
    /\ cmp.pc = "loop"
    /\ cmp.i <= Len(cmp.cities)
    /\ \E resp \in Responses :
          LET city_info == cmp.cities[cmp.i]
              city == DictGet(city_info, "city", NoArg)
              country == DictGet(city_info, "country", "CN")
              display_name == DictGet(city_info, "display_name", city)
              out == get_current_weather(city, country, resp, config, cache, now)
              data == out.ret
              parsed == parse_weather_data(data, display_name)
              t_end == cmp.clock
              iter == [start |-> cmp.clock, end |-> t_end,
                       requested |-> out.reqs # << >>]
          IN  /\ DoCall(out, resp)
              /\ IF out.raised \/ (TruthyOpt(data) /\ parsed.raised)
                 THEN cmp' = [cmp EXCEPT !.pc = "raised",
                                         !.got = Append(@, data),
                                         !.iters = Append(@, iter),
                                         !.clock = t_end]
                 ELSE cmp' = [cmp EXCEPT
                                 !.rows = IF TruthyOpt(data) /\ TruthyOpt(parsed.ret)
                                          THEN Append(@, ComparisonRow(parsed.ret[1]))
                                          ELSE @,
                                 !.got = Append(@, data),
                                 !.iters = Append(@, iter),
                                 !.clock = t_end + SleepAfter(data),
                                 !.i = @ + 1]
    /\ UNCHANGED <<config, now, calls, calc, stock, book, presets>>

\* return pd.DataFrame(comparisons)
CompareReturn ==
    /\ cmp.pc = "loop"
    /\ cmp.i > Len(cmp.cities)
    /\ cmp' = [cmp EXCEPT !.pc = "done"]
    /\ UNCHANGED <<config, now, cache, last, fetched, calls, calc, stock, book, presets>>

\* ------------------------------------------------------------ direct calls
\* The arguments the static helpers are called with: temperatures (tenths
\* of a degree) on, next to and between the band thresholds, humidities
\* (percent) and wind speeds (tenths of m/s) likewise.
TempInputs == {-50, -1, 0, 1, 99, 100, 101, 179, 180, 220, 259, 260, 280, 319, 320, 400}
HumidityInputs == {0, 29, 30, 31, 40, 50, 84, 85, 86, 90, 100}
WindInputs == {0, 20, 30, 50, 51, 100, 101, 120}

\* The weather[0].main values of the remote service.
Keywords ==
    {"Clear", "Clouds", "Rain", "Snow", "Thunderstorm", "Drizzle", "Mist", "Fog",
     "Haze", "Dust", "Smoke", "Ash", "Squall", "Tornado", "Sand"}
DisplayNameArgs == {NoArg, "Guilinshi"}
ParseArgs ==
    {None, Some(EmptyBody), Some(PartialBody)}
    \cup {Some([GoodBody EXCEPT !.weather_main = k]) : k \in Keywords}

OnlyCalc == <<config, now, cache, last, fetched, calls, cmp, stock, book, presets>>

CalculateComfortIndex ==
    /\ \E temp \in TempInputs, humidity \in HumidityInputs, wind_speed \in WindInputs :
          calc' = [op |-> "calculate_comfort_index", temp |-> temp,
                   humidity |-> humidity, wind_speed |-> wind_speed,
                   ret |-> calculate_comfort_index(temp, humidity, wind_speed)]
    /\ UNCHANGED OnlyCalc

ParseWeatherData ==
    /\ \E data \in ParseArgs, city_display_name \in DisplayNameArgs :
          LET r == parse_weather_data(data, city_display_name)
          IN  calc' = [op |-> "parse_weather_data", data |-> data,
                       city_display_name |-> city_display_name,
                       ret |-> r.ret, raised |-> r.raised]
    /\ UNCHANGED OnlyCalc

\* _load_from_cache called for the current-weather key of a city; `saved` is
\* the last body a fetch for that city returned (and wrote) before the call.
LoadFromCache ==
    /\ \E city \in Cities :
          LET cache_key == _get_cache_key(city, "current", now)
              cache_file == CacheFile(cache_key, "current")
              r == _load_from_cache(cache_key, "current", config, cache, now)
          IN  calc' = [op |-> "_load_from_cache", city |-> city,
                       cache_file |-> cache_file,
                       exists |-> cache_file \in DOMAIN cache,
                       file_age |-> IF cache_file \in DOMAIN cache
                                    THEN now - cache[cache_file].mtime ELSE -1,
                       saved |-> fetched[<<city, "current">>],
                       ret |-> r.ret, raised |-> r.raised]
    /\ UNCHANGED OnlyCalc

\* The fetcher started under either setting of USE_CACHE.
InitLookup ==
    /\ config \in {[DefaultConfig EXCEPT !.USE_CACHE = u] : u \in BOOLEAN}
    /\ now = StartTick
    /\ cache = [f \in {} |-> 0]
    /\ last = NoCall
    /\ fetched = [k \in Cities \X Endpoints |-> << >>]
    /\ calls = 0
    /\ cmp = IdleCompare
    /\ calc = NoCalc
    /\ stock = NoStock
    /\ book = NoBook
    /\ presets = NoPresets

\* ------------------------------------------------------------ stock loads
\* The CSV files found at start: any of the paths, each holding a frame saved
\* earlier or nothing at all.
StockFileSystems == UNION {[D -> {"local", EmptyCsv}] : D \in SUBSET StockPaths}

\* The ticker lists given to load_multiple_stocks: none, one, two in either
\* order, and one ticker twice.
TickerLists ==
    {<< >>, <<"AAPL">>, <<"AAPL", "MSFT">>, <<"MSFT", "AAPL">>, <<"MSFT", "MSFT">>}

InitStock ==
    /\ config = DefaultConfig
    /\ now = StartTick
    /\ cache = [f \in {} |-> 0]
    /\ last = NoCall
    /\ fetched = [k \in Cities \X Endpoints |-> << >>]
    /\ calls = 0
    /\ cmp = IdleCompare
    /\ calc = NoCalc
    /\ stock \in {[op |-> "none", files |-> fs] : fs \in StockFileSystems}
    /\ book = NoBook
    /\ presets = NoPresets

OnlyStock == <<config, now, cache, last, fetched, calls, cmp, calc, book, presets>>

LoadStockData ==
    /\ \E file_path \in StockPaths, force_download \in BOOLEAN, dl \in Downloads :
          LET r == load_stock_data(file_path, force_download, dl, stock.files)
          IN  stock' = [op |-> "load_stock_data", files |-> r.files,
                        before |-> stock.files, file_path |-> file_path,
                        force_download |-> force_download, dl |-> dl,
                        ret |-> r.ret, raised |-> r.raised,
                        downloads |-> r.downloads]
    /\ UNCHANGED OnlyStock

LoadMultipleStocks ==
    /\ \E tickers \in TickerLists, data_dir \in DataDirs,
          force_download \in BOOLEAN :
          \E dls \in [1..Len(tickers) -> Downloads] :
             LET r == load_multiple_stocks(tickers, data_dir, force_download, dls,
                                           stock.files)
             IN  stock' = [op |-> "load_multiple_stocks", files |-> r.files,
                           before |-> stock.files, tickers |-> tickers,
                           data_dir |-> data_dir,
                           force_download |-> force_download, dls |-> dls,
                           ret |-> r.ret, raised |-> r.raised, loads |-> r.loads]
    /\ UNCHANGED OnlyStock

\* -------------------------------------------------------------- book calls
OnlyBook == <<config, now, cache, last, fetched, calls, cmp, calc, stock, presets>>

GetBookInfo ==
    /\ \E book_name \in BookNames, search \in SearchResponses,
          detail \in DetailResponses :
          LET r == get_book_info(book_name, search, detail)
          IN  book' = [op |-> "get_book_info", book_name |-> book_name,
                       search |-> search,
                       detail |-> IF Len(r.reqs) = 2 THEN Some(detail) ELSE None,
                       ret |-> r.ret, raised |-> r.raised, reqs |-> r.reqs]
    /\ UNCHANGED OnlyBook

\* --------------------------------------------- city_manager: switch_city
\* What _save_config writes into config/config.py: the five city fields of
\* the in-memory config, the rest as fixed text (lines 126-161).
ConfigContent(cfg) ==
    [CITY |-> cfg.CITY, COUNTRY |-> cfg.COUNTRY, LAT |-> cfg.LAT, LON |-> cfg.LON,
     CITY_DISPLAY_NAME |-> cfg.CITY_DISPLAY_NAME,
     LANGUAGE |-> "zh_cn", FORECAST_DAYS |-> 5, USE_CACHE |-> TRUE, CACHE_HOURS |-> 1]

\* can_save: whether open(config_file_path, 'w') succeeds.
_save_config(cfg, config_file, can_save) ==
    IF can_save THEN [ret |-> TRUE, config_file |-> ConfigContent(cfg)]
    ELSE [ret |-> FALSE, config_file |-> config_file]

\* The display name left as it was.
SwitchedConfig_NoDisplayName(cfg, city_info, city_id) ==
    [cfg EXCEPT !.CITY = DictGet(city_info, "name", city_id),
                !.COUNTRY = DictGet(city_info, "country", "CN"),
                !.LAT = DictGet(city_info, "lat", 0),
                !.LON = DictGet(city_info, "lon", 0)]

\* The five assignments of lines 106-110.
SwitchedConfig(cfg, city_info, city_id) ==
    [cfg EXCEPT !.CITY = DictGet(city_info, "name", city_id),
                !.COUNTRY = DictGet(city_info, "country", "CN"),
                !.LAT = DictGet(city_info, "lat", 0),
                !.LON = DictGet(city_info, "lon", 0),
                !.CITY_DISPLAY_NAME = DictGet(city_info, "display_name", city_id)]

\* city_info = self.presets.get('cities', {}).get(city_id), and `if not
\* city_info`: no entry, or an entry that is an empty dict.
switch_city(city_id, mgr_presets, cfg, config_file, can_save) ==
    LET cities == DictGet(mgr_presets, "cities", EmptyBody)
    IN  IF city_id \notin DOMAIN cities \/ ~Truthy(cities[city_id])
        THEN [ret |-> FALSE, config |-> cfg, config_file |-> config_file]
        ELSE LET switched == SwitchedConfig(cfg, cities[city_id], city_id)
                 saved == _save_config(switched, config_file, can_save)
             IN  [ret |-> saved.ret, config |-> switched,
                  config_file |-> saved.config_file]

\* ------------------------------------------------ city_manager: add_city
\* The in-memory presets are changed first; can_write: whether
\* open(preset_file, 'w') succeeds.
add_city(city_id, city_info, mgr, files, can_write) ==
    LET old == DictGet(mgr.presets, "cities", EmptyBody)
        cities == [c \in DOMAIN old \cup {city_id} |->
                      IF c = city_id THEN city_info ELSE old[c]]
        new == [k \in DOMAIN mgr.presets \cup {"cities"} |->
                   IF k = "cities" THEN cities ELSE mgr.presets[k]]
    IN  [ret |-> can_write,
         presets |-> new,
         files |-> IF can_write
                   THEN [f \in DOMAIN files \cup {mgr.preset_file} |->
                            IF f = mgr.preset_file THEN JsonDump(new) ELSE files[f]]
                   ELSE files]

\* ------------------------------------------------------------ city manager
\* The ids given to switch_city: two default cities, a hand-written one, one
\* that add_city adds, and one no preset file knows.
SwitchIds == {"beijing", "guilin", "tokyo", "osaka", "atlantis"}
\* What add_city is given for 'osaka': nothing, or a name only.
AddedInfos == {EmptyBody, [name |-> "Osaka"]}

InitCity ==
    /\ config = DefaultConfig
    /\ now = StartTick
    /\ cache = [f \in {} |-> 0]
    /\ last = NoCall
    /\ fetched = [k \in Cities \X Endpoints |-> << >>]
    /\ calls = 0
    /\ cmp = IdleCompare
    /\ calc = NoCalc
    /\ stock = NoStock
    /\ book = NoBook
    /\ presets \in {[op |-> "none", files |-> fs, manager |-> None,
                      config_file |-> OriginalConfigFile] :
                        fs \in PresetFileSystems}

OnlyPresets == <<config, now, cache, last, fetched, calls, cmp, calc, stock, book>>

\* CityManager(preset_file): the manager built replaces the one before.
NewCityManager ==
    /\ \E preset_file \in PresetFiles, can_write \in BOOLEAN :
          LET r == _load_presets(preset_file, presets.files, can_write)
          IN  presets' = [op |-> "__init__", files |-> r.files,
                          manager |-> IF r.raised THEN None
                                      ELSE Some([preset_file |-> preset_file,
                                                 presets |-> r.ret]),
                          before |-> presets.files, preset_file |-> preset_file,
                          can_write |-> can_write, raised |-> r.raised,
                          config_file |-> presets.config_file]
    /\ UNCHANGED OnlyPresets

SwitchCity ==
    /\ presets.manager # None
    /\ \E city_id \in SwitchIds, can_save \in BOOLEAN :
          LET r == switch_city(city_id, presets.manager[1].presets, config,
                               presets.config_file, can_save)
          IN  /\ config' = r.config
              /\ presets' = [op |-> "switch_city", files |-> presets.files,
                              before |-> presets.files,
                              manager |-> presets.manager,
                              config_file |-> r.config_file,
                              city_id |-> city_id, can_save |-> can_save,
                              ret |-> r.ret, config_before |-> config,
                              config_file_before |-> presets.config_file]
    /\ UNCHANGED <<now, cache, last, fetched, calls, cmp, calc, stock, book>>

AddCity ==
    /\ presets.manager # None
    /\ \E city_info \in AddedInfos, can_write \in BOOLEAN :
          LET r == add_city("osaka", city_info, presets.manager[1], presets.files,
                            can_write)
          IN  presets' = [op |-> "add_city", files |-> r.files,
                          manager |-> Some([preset_file |-> presets.manager[1].preset_file,
                                            presets |-> r.presets]),
                          config_file |-> presets.config_file, ret |-> r.ret]
    /\ UNCHANGED OnlyPresets

\* get_forecast called with any number of days (0: the argument left out).
GetForecastDays ==
    /\ calls < MaxCalls
    /\ \E cc \in CityCountryArgs, days \in 0..MaxDays, resp \in Responses :
          /\ DoCall(get_forecast(cc[1], cc[2], days, resp, config, cache, now), resp)
          /\ calc' = [op |-> "get_forecast", days |-> days]
    /\ calls' = calls + 1
    /\ UNCHANGED <<config, now, cmp, stock, book, presets>>

\* The fetch operations called with a country and a number of days of the
\* caller's choice.  `calc` keeps the country and days each call resolved
\* (lines 62-63, 108-110) and, per city and endpoint kind, those of the call
\* whose answer was last returned from a remote fetch.
CountryArgs == {NoArg, "US"}
\* The answers that matter to reuse: none, an empty body, a full body.
KeyResponses ==
    {NetworkError} \cup {[err |-> FALSE, status |-> HTTP_OK, body |-> Some(d)] :
                            d \in {EmptyBody, GoodBody}}
NoFetchArgs == [k \in Cities \X Endpoints |-> << >>]
FetchArgs == IF calc.op = "fetch_args" THEN calc.fetch_args ELSE NoFetchArgs

RecordArgs(out, country, days) ==
    LET target_country == IF country # NoArg THEN country ELSE config.COUNTRY
        target_days == IF out.endpoint = "current" THEN 0
                       ELSE IF days # 0 THEN days ELSE config.FORECAST_DAYS
        args == [country |-> target_country, days |-> target_days]
        k == <<out.city, out.endpoint>>
    IN  calc' = [op |-> "fetch_args", country |-> target_country,
                 days |-> target_days, prior_args |-> FetchArgs[k],
                 fetch_args |-> IF out.ret # None /\ ~out.hit
                                THEN [FetchArgs EXCEPT ![k] = <<args>>]
                                ELSE FetchArgs]

GetCurrentWeatherIn ==
    /\ calls < MaxCalls
    /\ \E city \in {NoArg, "Beijing"}, country \in CountryArgs, resp \in KeyResponses :
          LET out == get_current_weather(city, country, resp, config, cache, now)
          IN  DoCall(out, resp) /\ RecordArgs(out, country, 0)
    /\ calls' = calls + 1
    /\ UNCHANGED <<config, now, cmp, stock, book, presets>>

GetForecastIn ==
    /\ calls < MaxCalls
    /\ \E city \in {NoArg, "Beijing"}, country \in CountryArgs,
          days \in DaysArgs, resp \in KeyResponses :
          LET out == get_forecast(city, country, days, resp, config, cache, now)
          IN  DoCall(out, resp) /\ RecordArgs(out, country, days)
    /\ calls' = calls + 1
    /\ UNCHANGED <<config, now, cmp, stock, book, presets>>

\* The fetch operations called one after another.
Next ==
    \/ Tick
    \/ GetCurrentWeather
    \/ GetForecast
    \/ GetWeatherByCoordinates

Spec == Init /\ [][Next]_vars

\* compare_cities calls, one after another.
NextCompare ==
    \/ CompareStart
    \/ CompareIter
    \/ CompareReturn

SpecCompare == Init /\ [][NextCompare]_vars

\* Forecasts of any length, as time passes.
NextForecast ==
    \/ Tick
    \/ GetForecastDays

SpecForecast == Init /\ [][NextForecast]_vars

\* The static helpers called directly, one call after another.
NextHelpers ==
    \/ CalculateComfortIndex
    \/ ParseWeatherData

SpecHelpers == Init /\ [][NextHelpers]_vars

\* Current-weather calls and direct cache lookups, as time passes.
NextLookup ==
    \/ Tick
    \/ GetCurrentWeather
    \/ LoadFromCache

SpecLookup == InitLookup /\ [][NextLookup]_vars

\* Single stock loads, one after another.
NextStock ==
    \/ LoadStockData

SpecStock == InitStock /\ [][NextStock]_vars

\* Loads of ticker lists, one after another.
NextStocks ==
    \/ LoadMultipleStocks

SpecStocks == InitStock /\ [][NextStocks]_vars

\* get_book_info calls, one after another.
NextBook ==
    \/ GetBookInfo

SpecBook == Init /\ [][NextBook]_vars

\* City managers built one after another.
NextCity ==
    \/ NewCityManager

SpecCity == InitCity /\ [][NextCity]_vars

\* A city manager built, given cities and told to switch.
NextSwitch ==
    \/ NewCityManager
    \/ AddCity
    \/ SwitchCity

SpecSwitch == InitCity /\ [][NextSwitch]_vars

\* Both cached fetches, under either setting of USE_CACHE.
NextUncached ==
    \/ Tick
    \/ GetCurrentWeather
    \/ GetForecast

SpecUncached == InitLookup /\ [][NextUncached]_vars

\* The cached fetches called with varying country and days.
NextKey ==
    \/ Tick
    \/ GetCurrentWeatherIn
    \/ GetForecastIn

SpecKey == Init /\ [][NextKey]_vars

\* ================================================================= claims
\* The messages that report a caller-retryable failure.
TransientSignals == {"RequestFailed", "NetworkError"}

LastIsCached == last.op \in CachedOps
LastRequested == last.reqs # << >>

C2_StaleEntryOneRequest ==
    (LastIsCached /\ last.file_age > CacheWindow(config))
    => Len(last.reqs) = 1 /\ ~last.hit /\ ~last.raised

C2_Witness ==
    /\ LastIsCached
    /\ last.file_age > CacheWindow(config)
    /\ Len(last.reqs) = 1

\* C3: get_current_weather answered 404 reports NotFound, returns no data
\* and neither creates nor modifies a cache file.
C3_NotFoundNoCacheWrite ==
    (/\ last.op = "get_current_weather"
     /\ LastRequested
     /\ ~last.resp.err
     /\ last.resp.status = HTTP_NOT_FOUND)
    => /\ last.signal = "NotFound"
       /\ last.ret = None
       /\ ~last.raised
       /\ last.touched = {}

C3_Witness ==
    /\ last.op = "get_current_weather"
    /\ LastRequested
    /\ last.resp.status = HTTP_NOT_FOUND
    /\ last.signal = "NotFound"
    /\ DOMAIN cache # {}

\* C4: every fetch call sends at most one request, and one answered with a
\* network error or a status other than 200 and 404 reports a transient
\* failure and returns no data.
C4_TransientNoRetry ==
    /\ Len(last.reqs) <= 1
    /\ (/\ LastRequested
        /\ (last.resp.err \/ last.resp.status \notin {HTTP_OK, HTTP_NOT_FOUND}))
       => /\ last.signal \in TransientSignals
          /\ last.ret = None
          /\ ~last.raised

C4_Witness ==
    /\ last.op = "get_current_weather"
    /\ LastRequested
    /\ ~last.resp.err
    /\ last.resp.status \in OtherStatuses
    /\ last.signal = "RequestFailed"
    /\ last.ret = None

\* C5 (as stated): in get_current_weather and get_forecast the cache lookup
\* comes before any request, and every request answered 200 with a JSON body
\* has that body written to the cache file of the key before it is returned,
\* so that loading the file gives the body returned.
C5_Original ==
    LastIsCached =>
        /\ LastRequested => last.events[1] = "lookup"
        /\ (/\ LastRequested
            /\ ~last.resp.err
            /\ last.resp.status = HTTP_OK
            /\ last.resp.body # None)
           => /\ last.events = <<"lookup", "request", "save">>
              /\ last.ret = last.resp.body
              /\ last.file \in DOMAIN cache
              /\ ~JsonLoadRaises(cache[last.file].text)
              /\ Some(JsonLoad(cache[last.file].text)) = last.ret

\* C6 (as stated): no exception leaves a fetch call or compare_cities.
C6_Original == ~last.raised /\ cmp.pc # "raised"

\* The display names of the cities whose fetch returned data, in input order.
RECURSIVE ExpectedNames(_, _)
ExpectedNames(cities, got) ==
    IF cities = << >> \/ got = << >> THEN << >>
    ELSE IF TruthyOpt(Head(got))
         THEN <<DictGet(Head(cities), "display_name", Head(cities).city)>>
              \o ExpectedNames(Tail(cities), Tail(got))
         ELSE ExpectedNames(Tail(cities), Tail(got))

RowNames(rows) == [k \in 1..Len(rows) |-> rows[k].chengshi]

CompareEnded == cmp.pc \in {"done", "raised"}

\* C7 (as stated): compare_cities always returns, with one row per city
\* whose fetch returned data and none for the others, in input order.
C7_Original ==
    CompareEnded =>
        /\ cmp.pc = "done"
        /\ Len(cmp.got) = Len(cmp.cities)
        /\ RowNames(cmp.rows) = ExpectedNames(cmp.cities, cmp.got)

\* C8: in one compare_cities call the fetches follow one another, and at
\* least 1.1 s pass between the end of one and the start of the next.
C8_DelayBetweenFetches ==
    \A k \in 1..(Len(cmp.iters) - 1) :
        /\ cmp.iters[k].end <= cmp.iters[k + 1].start
        /\ cmp.iters[k + 1].start - cmp.iters[k].end >= SleepDeciSeconds

C8_Witness ==
    /\ Len(cmp.iters) >= 2
    /\ cmp.iters[1].requested
    /\ cmp.iters[2].requested
    /\ cmp.got[1] = None

\* C9 (as stated): a city that fails, in the fetch or in the parse, does not
\* end the batch: every later city is attempted and the call returns.
C9_Original ==
    /\ cmp.pc = "raised" => cmp.i > Len(cmp.cities)
    /\ cmp.pc # "raised"

\* C10: get_weather_by_coordinates sends one request by lat/lon, without a
\* city name, does not look the cache up and leaves every cache file as it was.
C10_CoordinatesBypassCache ==
    last.op = "get_weather_by_coordinates" =>
        /\ last.events = <<"request">>
        /\ Len(last.reqs) = 1
        /\ {"lat", "lon"} \subseteq DOMAIN last.reqs[1]
        /\ "q" \notin DOMAIN last.reqs[1]
        /\ ~last.hit
        /\ last.touched = {}

C10_Witness ==
    /\ last.op = "get_weather_by_coordinates"
    /\ last.ret # None
    /\ \E f \in DOMAIN cache : IsFresh(now - cache[f].mtime, config)
    /\ last.touched = {}

\* C11: a get_forecast call that misses the cache sends exactly one request,
\* to the forecast endpoint with metric units, whose cnt is eight times the
\* days given (days >= 1), or eight times FORECAST_DAYS when days is left out.
C11_ForecastCount ==
    (calc.op = "get_forecast" /\ ~last.hit /\ ~last.raised) =>
        /\ Len(last.reqs) = 1
        /\ last.reqs[1].url = "/forecast"
        /\ last.reqs[1].units = "metric"
        /\ last.reqs[1].cnt = IF calc.days >= 1 THEN calc.days * 8
                               ELSE config.FORECAST_DAYS * 8
C11_Witness ==
    /\ calc.op = "get_forecast" /\ calc.days = MaxDays
    /\ ~last.hit /\ last.reqs # << >> /\ last.reqs[1].cnt = 8 * MaxDays

\* The rule table of the comfort rating: the band of a temperature is found by
\* counting the thresholds it has reached.
RefThresholds == {0, 100, 180, 260, 320}
RefBands == <<"yanhan", "hanleng", "liangshuang", "shushi", "wennuan", "yanre">>
RefTemp(temp) == RefBands[1 + Cardinality({b \in RefThresholds : temp >= b})]
RefHumidity(humidity) ==
    CASE humidity \in 30..85 -> "shizhong"
      [] humidity < 30 -> "ganzao"
      [] humidity > 85 -> "chaoshi"
RefComfort(temp, humidity) ==
    CASE RefTemp(temp) = "shushi" /\ RefHumidity(humidity) = "shizhong"
            -> "feichangshushi"
      [] RefTemp(temp) \in {"wennuan", "liangshuang"} /\ RefHumidity(humidity) # "chaoshi"
            -> "jiaoweishushi"
      [] OTHER -> RefTemp(temp) \o RefHumidity(humidity)

\* C12: calculate_comfort_index returns what the rule table gives: bands cut
\* at 0/10/18/26/32 degrees with each threshold in the upper band, humidity
\* dry below 30, moderate from 30 to 85, humid above; (22, 50, 3) is very
\* comfortable, (-5, 40, 2) severe-cold moderate, (28, 90, 12) warm humid.
C12_ComfortRuleTable ==
    (calc.op = "calculate_comfort_index") =>
        /\ calc.ret = RefComfort(calc.temp, calc.humidity)
        /\ (calc.temp = 220 /\ calc.humidity = 50 /\ calc.wind_speed = 30)
              => calc.ret = "feichangshushi"
        /\ (calc.temp = -50 /\ calc.humidity = 40 /\ calc.wind_speed = 20)
              => calc.ret = "yanhanshizhong"
        /\ (calc.temp = 280 /\ calc.humidity = 90 /\ calc.wind_speed = 120)
              => calc.ret = "wennuanchaoshi"
C12_Witness ==
    /\ calc.op = "calculate_comfort_index"
    /\ calc.temp = 260 /\ calc.humidity = 85 /\ calc.ret = "jiaoweishushi"

\* C13: the rating does not depend on the wind speed: the call's result is the
\* result for the same temperature and humidity under every other wind speed.
C13_WindIndependent ==
    (calc.op = "calculate_comfort_index") =>
        \A w \in WindInputs :
            calculate_comfort_index(calc.temp, calc.humidity, w) = calc.ret
C13_Witness ==
    /\ calc.op = "calculate_comfort_index"
    /\ calc.wind_speed = 120 /\ calc.ret = "wennuanchaoshi"

\* C14: a parsed record's condition is the table's label of weather[0].main
\* when the keyword is a key of the table, and the keyword itself otherwise.
C14_ConditionMapping ==
    (calc.op = "parse_weather_data" /\ calc.ret # None) =>
        LET weather_en == calc.data[1].weather_main
        IN  /\ weather_en \in DOMAIN WEATHER_MAP
                  => calc.ret[1].tianqi = WEATHER_MAP[weather_en]
            /\ weather_en \notin DOMAIN WEATHER_MAP
                  => calc.ret[1].tianqi = weather_en
C14_Witness ==
    /\ calc.op = "parse_weather_data" /\ calc.ret # None
    /\ calc.data[1].weather_main = "Sand" /\ calc.ret[1].tianqi = "Sand"

\* C15: the cache file a call addresses is fixed by its city, its endpoint kind
\* and the calendar date: a call made on the same date as an earlier fetch for
\* the same city and kind addresses the same file, named
\* {cache_key}_{endpoint kind}.json.
C15_SameDaySameFile ==
    LastIsCached =>
        /\ (last.prior # << >> /\ last.prior[1].at \div DayTicks = last.at \div DayTicks)
              => last.file = last.prior[1].file
        /\ LET key_city == IF last.endpoint = "forecast"
                            THEN last.city \o "_forecast" ELSE last.city
           IN  last.file = _get_cache_key(key_city, last.endpoint, last.at)
                           \o "_" \o last.endpoint \o ".json"
C15_Witness ==
    /\ LastIsCached /\ last.prior # << >>
    /\ last.prior[1].at \div DayTicks = last.at \div DayTicks
    /\ last.prior[1].at < last.at
    /\ last.file = last.prior[1].file
    /\ ~last.hit

\* C16 (as stated): a cache lookup returns the stored payload if and only if
\* caching is enabled, the file of the key exists and its age is strictly
\* less than the freshness window.
C16_Original ==
    (calc.op = "_load_from_cache") =>
        /\ (~calc.raised /\ calc.ret # None)
              <=> (/\ config.USE_CACHE
                   /\ calc.exists
                   /\ calc.file_age < config.CACHE_HOURS * TicksPerHour)
        /\ calc.ret # None =>
              /\ calc.saved # << >>
              /\ calc.ret[1] = calc.saved[1].body

\* C17 (as stated): load_stock_data downloads only when needed.  When the file
\* exists and force_download is false no download is attempted and the file
\* is left as it was; otherwise exactly one download is attempted and, when
\* it succeeds, its result is saved to file_path and returned.
C17_Original ==
    (stock.op = "load_stock_data") =>
        LET existed == stock.file_path \in DOMAIN stock.before
        IN  /\ (existed /\ ~stock.force_download)
                  => /\ stock.downloads = 0
                     /\ stock.files = stock.before
            /\ (~existed \/ stock.force_download)
                  => /\ stock.downloads = 1
                     /\ ~stock.dl.raised
                           => /\ stock.file_path \in DOMAIN stock.files
                              /\ stock.files[stock.file_path] = stock.dl.data
                              /\ ~stock.raised
                              /\ stock.ret = Some(stock.dl.data)

\* C18: load_multiple_stocks does not raise, attempts every ticker of the
\* list, and returns a dict whose keys are exactly the tickers of which a
\* load succeeded.
C18_KeysAreSuccessfulLoads ==
    (stock.op = "load_multiple_stocks") =>
        /\ ~stock.raised
        /\ Len(stock.loads) = Len(stock.tickers)
        /\ \A i \in 1..Len(stock.tickers) : stock.loads[i].ticker = stock.tickers[i]
        /\ DOMAIN stock.ret =
              {stock.tickers[i] : i \in {j \in 1..Len(stock.loads) : ~stock.loads[j].raised}}
C18_Witness ==
    /\ stock.op = "load_multiple_stocks"
    /\ Len(stock.tickers) = 2
    /\ stock.loads[1].raised /\ ~stock.loads[2].raised
    /\ DOMAIN stock.ret = {stock.tickers[2]}

\* C19: get_book_info never raises and sends one or two requests, the second
\* one to a link found in the search result.  It returns None when the search
\* or the detail request fails, when the page has no window.__DATA__, invalid
\* JSON, no 'items' or no item url holding 'subject'; what it returns
\* otherwise is a dict of exactly the five keys, the title being the input
\* name and the other fields 'unknown' where the page gives nothing.
C19_BookInfoTotal ==
    (book.op = "get_book_info") =>
        LET pg == book.search.page
            HasSubjectItem ==
                /\ pg.data.items # None
                /\ \E i \in 1..Len(pg.data.items[1]) :
                      /\ pg.data.items[1][i].url # None
                      /\ ContainsSubject(pg.data.items[1][i].url[1])
            SearchFails ==
                \/ book.search.err
                \/ book.search.status >= 400
                \/ ~pg.marker
                \/ ~pg.valid
                \/ ~HasSubjectItem
            DetailFails ==
                /\ book.detail # None
                /\ book.detail[1].err \/ book.detail[1].status >= 400
        IN  /\ ~book.raised
            /\ Len(book.reqs) \in {1, 2}
            /\ book.reqs[1] = DOUBAN_SEARCH_URL
            /\ Len(book.reqs) = 2 =>
                  /\ ~SearchFails
                  /\ \E i \in 1..Len(pg.data.items[1]) :
                        pg.data.items[1][i].url = Some(book.reqs[2])
                  /\ ContainsSubject(book.reqs[2])
            /\ (SearchFails \/ DetailFails) => book.ret = None
            /\ book.ret # None =>
                  LET info == book.ret[1]
                      page == book.detail[1].page
                  IN  /\ Len(book.reqs) = 2
                      /\ DOMAIN info =
                            {"title", "author", "publish_year", "publisher", "isbn"}
                      /\ (page.title_span = None /\ page.h1 = None)
                            => info.title = book.book_name
                      /\ page.authors = << >> => info.author = "weizhi"
                      /\ page.year = None => info.publish_year = "weizhi"
                      /\ page.publisher = None => info.publisher = "weizhi"
                      /\ page.isbn = None => info.isbn = "weizhi"
C19_Witness ==
    /\ book.op = "get_book_info" /\ book.ret # None
    /\ book.detail[1].page.tree = "tree"
    /\ book.detail[1].page.h1 = None /\ book.ret[1].title = book.book_name
    /\ book.ret[1].author = "weizhi" /\ book.ret[1].isbn # "weizhi"
    /\ book.reqs[2] = "https://book.douban.com/subject/2/"

\* C20: building a CityManager never raises.  When the preset file exists and
\* holds JSON, the manager holds that content and no file is written; when it
\* does not exist and can be written, it is written with the six default
\* cities, which the manager holds; when reading or writing fails the manager
\* holds {'cities': {}}.
C20_PresetLoading ==
    (presets.op = "__init__") =>
        LET f == presets.preset_file
            existed == f \in DOMAIN presets.before
            readable == existed /\ Len(presets.before[f]) = 3
        IN  /\ ~presets.raised
            /\ presets.manager # None
            /\ existed => presets.files = presets.before
            /\ readable => presets.manager[1].presets = presets.before[f][2]
            /\ (~existed /\ presets.can_write) =>
                  /\ presets.manager[1].presets = presets.files[f][2]
                  /\ Len(presets.files[f]) = 3
                  /\ DOMAIN presets.manager[1].presets = {"cities"}
                  /\ DOMAIN presets.manager[1].presets.cities =
                        {"beijing", "shanghai", "guangzhou", "shenzhen",
                         "chengdu", "guilin"}
                  /\ \A g \in DOMAIN presets.before : presets.files[g] = presets.before[g]
            /\ ((existed /\ ~readable) \/ (~existed /\ ~presets.can_write)) =>
                  /\ DOMAIN presets.manager[1].presets = {"cities"}
                  /\ DOMAIN presets.manager[1].presets.cities = {}
                  /\ presets.files = presets.before
C20_Witness ==
    /\ presets.op = "__init__"
    /\ presets.preset_file \notin DOMAIN presets.before
    /\ presets.can_write
    /\ presets.preset_file \in DOMAIN presets.files
    /\ "guilin" \in DOMAIN presets.manager[1].presets.cities
    /\ DOMAIN presets.before # {}

\* What a switch_city call found and did, read off the state after it.
SwitchCities ==
    IF "cities" \in DOMAIN presets.manager[1].presets
    THEN presets.manager[1].presets.cities ELSE [c \in {} |-> 0]
SwitchFrame(known) ==
    /\ ~known =>
          /\ presets.ret = FALSE
          /\ config = presets.config_before
          /\ presets.config_file = presets.config_file_before
          /\ presets.files = presets.before
    /\ known =>
          LET info == SwitchCities[presets.city_id]
              Field(k, default) == IF k \in DOMAIN info THEN info[k] ELSE default
          IN  /\ config.CITY = Field("name", presets.city_id)
              /\ config.COUNTRY = Field("country", "CN")
              /\ config.LAT = Field("lat", 0)
              /\ config.LON = Field("lon", 0)
              /\ config.CITY_DISPLAY_NAME = Field("display_name", presets.city_id)
              /\ DOMAIN config = DOMAIN presets.config_before
              /\ \A k \in DOMAIN config \ {"CITY", "COUNTRY", "LAT", "LON",
                                               "CITY_DISPLAY_NAME"} :
                    config[k] = presets.config_before[k]
              /\ presets.ret = presets.can_save
              /\ presets.can_save =>
                    /\ presets.config_file.CITY = config.CITY
                    /\ presets.config_file.CITY_DISPLAY_NAME = config.CITY_DISPLAY_NAME
              /\ ~presets.can_save =>
                    presets.config_file = presets.config_file_before

\* C21 (as stated): switch_city with an id that is not in the presets returns
\* False and changes neither the config nor any file; with an id that is in
\* the presets it sets the five city fields from the entry (defaults: id,
\* 'CN', 0, 0, id), leaves every other config field alone, and returns True
\* exactly when the config file was written, with no rollback otherwise.
C21_Original ==
    (presets.op = "switch_city") =>
        SwitchFrame(presets.city_id \in DOMAIN SwitchCities)

\* C21 (amended): an id whose entry is an empty dict counts as not in the
\* presets; the five fields are set for the ids whose entry is not empty.
C21_SwitchFrame ==
    (presets.op = "switch_city") =>
        SwitchFrame(/\ presets.city_id \in DOMAIN SwitchCities
                    /\ DOMAIN SwitchCities[presets.city_id] # {})
C21_Witness ==
    /\ presets.op = "switch_city"
    /\ presets.city_id = "osaka" /\ ~presets.can_save
    /\ presets.ret = FALSE
    /\ config.CITY = "Osaka" /\ config.COUNTRY = "CN" /\ config.LAT = 0
    /\ config.CITY_DISPLAY_NAME = "osaka"
    /\ presets.config_before.CITY = "Beijing"

\* C22: a payload that get_current_weather or get_forecast returns from the
\* cache is the body of a successful remote fetch made less than CACHE_HOURS
\* before the call, and the hit leaves the file and its modification time as
\* that fetch wrote them.
C22_BoundedStaleness ==
    (LastIsCached /\ last.hit) =>
        /\ last.reqs = << >>
        /\ last.touched = {}
        /\ last.file_age >= 0
        /\ last.file_age < config.CACHE_HOURS * TicksPerHour
        /\ last.prior # << >>
        /\ last.prior[1].file = last.file
        /\ last.prior[1].at = last.at - last.file_age
        /\ last.ret = Some(last.prior[1].body)
        /\ cache[last.file].mtime = last.prior[1].at
C22_Witness ==
    /\ LastIsCached /\ last.hit
    /\ last.file_age = config.CACHE_HOURS * TicksPerHour - 1
    /\ last.ret = Some(last.prior[1].body)
    /\ cache[last.file].mtime < last.at

\* C23: of two calls for the same city and endpoint kind, the first answered
\* with HTTP 200, the second less than CACHE_HOURS later but on another
\* calendar date: the second addresses another cache file than the first
\* wrote, finds no entry there and sends one request.
C23_MidnightMiss ==
    (/\ LastIsCached
     /\ calls = 2
     /\ last.prior # << >>
     /\ last.at - last.prior[1].at < CacheWindow(config)
     /\ last.prior[1].at \div DayTicks # last.at \div DayTicks)
    => /\ last.file # last.prior[1].file
       /\ last.file_age = -1
       /\ ~last.hit
       /\ ~last.raised
       /\ Len(last.reqs) = 1
C23_Witness ==
    /\ LastIsCached
    /\ calls = 2
    /\ last.prior # << >>
    /\ Truthy(last.prior[1].body)
    /\ last.at - last.prior[1].at < CacheWindow(config)
    /\ last.prior[1].at \div DayTicks # last.at \div DayTicks
    /\ last.prior[1].file \in DOMAIN cache
    /\ last.at - cache[last.prior[1].file].mtime < CacheWindow(config)
    /\ last.file # last.prior[1].file
    /\ Len(last.reqs) = 1

\* The last call was for the city and kind of an earlier fetch, on the same
\* date and within the freshness window, with another country or another
\* number of days than that fetch.
OtherArgsRepeat ==
    /\ calc.op = "fetch_args"
    /\ LastIsCached
    /\ config.USE_CACHE
    /\ last.prior # << >>
    /\ calc.prior_args # << >>
    /\ last.prior[1].at \div DayTicks = last.at \div DayTicks
    /\ last.at - last.prior[1].at < CacheWindow(config)
    /\ \/ calc.country # calc.prior_args[1].country
       \/ calc.days # calc.prior_args[1].days

C25_Original ==
    (LastIsCached /\ ~config.USE_CACHE) =>
        /\ ~last.hit
        /\ Len(last.reqs) = 1
        /\ (~last.resp.err /\ last.resp.status = HTTP_OK /\ last.resp.body # None)
              => /\ last.file \in DOMAIN cache
                 /\ cache[last.file].mtime = last.at
                 /\ ~JsonLoadRaises(cache[last.file].text)
                 /\ Some(JsonLoad(cache[last.file].text)) = last.resp.body

=============================================================================
